---- MODULE Spec2Model ----
(***************************************************************************)
(* A model of slipcover's bytecode editor (src/slipcover/bytecode.py):     *)
(* the instruction codec, Branch, ExceptionTableEntry, LineEntry and the   *)
(* Editor that keeps them synchronised with the patch buffer.              *)
(*                                                                         *)
(* Offsets are 0-based byte offsets as in the source; a byte sequence s    *)
(* holds the byte at offset o in s[o + 1].                                 *)
(***************************************************************************)
EXTENDS Integers, Sequences, FiniteSets, TLC

VARIABLES
    PYTHON_VERSION,   \* sys.version_info[0:2], as 100 * major + minor
    orig_code,        \* Editor.orig_code: the immutable code object
    consts,           \* Editor.consts
    branches,         \* Editor.branches: sequence of Branch records
    ex_table,         \* Editor.ex_table: sequence of ExceptionTableEntry records
    lines,            \* Editor.lines: sequence of LineEntry records
    patch,            \* Editor.patch: the bytearray
    max_addtl_stack,  \* Editor.max_addtl_stack
    finished,         \* Editor.finished
    pc,               \* position inside Editor.finish (idle outside of it)
    log,              \* history: one record per call made on the Editor
    adj,              \* history: the adjust(offset, length) calls of the last step
    result,           \* what the calls of finish have returned, in order
    codec             \* the last call of a module-level function made outside an Editor

vars == <<PYTHON_VERSION, orig_code, consts, branches, ex_table, lines, patch,
          max_addtl_stack, finished, pc, log, adj, result, codec>>

editor == <<consts, branches, ex_table, lines, patch, max_addtl_stack, finished>>

-----------------------------------------------------------------------------
(* Bounds of the model.                                                    *)

\* calls made on one Editor (add_const, insert_function_call,
\* replace_global_with_const, finish)
MaxOps == 2

-----------------------------------------------------------------------------
(* Opcodes (dis.opmap) and the tables of dis the source reads.             *)

op_EXTENDED_ARG == 144
op_EXTENDED_ARG_QUICK == 34
op_LOAD_CONST == 100
op_LOAD_GLOBAL == 116
op_PUSH_NULL == 2
op_PRECALL == 166
op_CALL == 171
op_CACHE == 0
op_CALL_FUNCTION == 131
op_POP_TOP == 1
op_JUMP_FORWARD == 110
op_NOP == 9
op_JUMP_ABSOLUTE == 113
op_JUMP_BACKWARD == 140
op_RETURN_VALUE == 83

is_EXTENDED_ARG(v) ==
    IF v >= 311 THEN {op_EXTENDED_ARG, op_EXTENDED_ARG_QUICK}
    ELSE {op_EXTENDED_ARG}

\* dis.hasjrel(v)
hasjrel(v) ==
    IF v >= 311
    THEN {93, 110, 111, 112, 114, 115, 123, 128, 129, 134, 140, 173, 174, 175, 176}
    ELSE {93, 110, 122, 143, 154}

\* dis.hasjabs(v)
hasjabs(v) ==
    IF v >= 311 THEN {} ELSE {111, 112, 113, 114, 115, 121}

\* 'JUMP_BACKWARD' in dis.opname[opcode]
is_JUMP_BACKWARD(v, opcode) ==
    v >= 311 /\ opcode \in {134, 140, 173, 174, 175, 176}

\* dis._inline_cache_entries[opcode] (read on 3.11+ only)
inline_cache_entries(opcode) ==
    CASE opcode \in {25, 95, 106, op_CALL} -> 4
      [] opcode \in {60, 92, 122, op_PRECALL} -> 1
      [] opcode = 107 -> 2
      [] opcode = op_LOAD_GLOBAL -> 5
      [] opcode = 160 -> 10
      [] OTHER -> 0

\* dis.HAVE_ARGUMENT
HAVE_ARGUMENT == 90

\* dis.stack_effect(op, arg), for the opcodes of an inserted call sequence
\* (arg is "None" below HAVE_ARGUMENT and is not read there)
stack_effect(v, op, arg) ==
    CASE op = op_LOAD_CONST -> 1
      [] op = op_PUSH_NULL /\ v >= 311 -> 1
      [] op = op_POP_TOP -> -1
      [] op = op_PRECALL /\ v >= 311 -> -arg
      [] op = op_CALL /\ v >= 311 -> -1
      [] op = op_CALL_FUNCTION /\ v < 311 -> -arg
      [] OTHER -> 0

-----------------------------------------------------------------------------
(* Sequence helpers that stand for Python's list and slice operations.     *)

Max(a, b) == IF a >= b THEN a ELSE b

Min(a, b) == IF a <= b THEN a ELSE b

Abs(a) == IF a >= 0 THEN a ELSE -a

\* s[lo:hi] = repl, for 0 <= lo <= hi <= len(s)
SliceAssign(s, lo, hi, repl) ==
    SubSeq(s, 1, lo) \o repl \o SubSeq(s, hi + 1, Len(s))

\* [v] * n
Repeat(v, n) == [i \in 1..n |-> v]

\* words * n, for a sequence of bytes
RepeatSeq(words, n) == [i \in 1..(n * Len(words)) |-> words[((i - 1) % Len(words)) + 1]]

RECURSIVE Concat(_)
Concat(ss) == IF ss = <<>> THEN <<>> ELSE Head(ss) \o Concat(Tail(ss))

-----------------------------------------------------------------------------
(* offset2branch, branch2offset, arg_ext_needed, opcode_arg                *)

offset2branch(v, offset) ==
    IF v >= 310 THEN offset \div 2 ELSE offset

branch2offset(v, arg) ==
    IF v >= 310 THEN arg * 2 ELSE arg

\* int.bit_length()
RECURSIVE bit_length(_)
bit_length(n) == IF n = 0 THEN 0 ELSE 1 + bit_length(Abs(n) \div 2)

\* an arg_ext_needed that counts one prefix for every 16 bits
arg_ext_needed_per_16_bits(arg) == (bit_length(arg) - 1) \div 16

arg_ext_needed(arg) == (bit_length(arg) - 1) \div 8

\* (arg >> shift) & 0xFF
ByteAt(arg, shift) == (arg \div (2 ^ shift)) % 256

\* the number of EXTENDED_ARGs opcode_arg emits
opcode_arg_ext(arg, min_ext) == Max(arg_ext_needed(arg), min_ext)

\* opcode_arg's "assert ext <= 3" holds
opcode_arg_ok(arg, min_ext) == opcode_arg_ext(arg, min_ext) <= 3

opcode_arg(v, opcode, arg, min_ext) ==
    LET ext == opcode_arg_ext(arg, min_ext)
        prefixes == Concat([i \in 1..ext |->
                        <<op_EXTENDED_ARG, ByteAt(arg, (ext - (i - 1)) * 8)>>])
        caches == IF v >= 311
                  THEN Concat([i \in 1..inline_cache_entries(opcode) |-> <<op_CACHE, 0>>])
                  ELSE <<>>
    IN  prefixes \o <<opcode, arg % 256>> \o caches

-----------------------------------------------------------------------------
(* unpack_opargs: the decoded instructions <<offset, length, op, arg>>     *)

\* the inner "while off+2 < len(code) and code[off+2] == op_CACHE: off += 2"
RECURSIVE skip_CACHE(_, _)
skip_CACHE(code, off) ==
    IF off + 2 < Len(code) /\ code[off + 3] = op_CACHE
    THEN skip_CACHE(code, off + 2)
    ELSE off

\* one iteration of the "while off < len(code)" loop; st holds the loop's
\* variables and the instructions yielded so far
unpack_step(v, code, st) ==
    LET off == st.off
        op == code[off + 1]
    IN  IF op \in is_EXTENDED_ARG(v)
        THEN [st EXCEPT !.ext_arg = (st.ext_arg + code[off + 2]) * 256,
                        !.off = off + 2]
        ELSE LET arg == st.ext_arg + code[off + 2]
                 last == IF v >= 311 THEN skip_CACHE(code, off) ELSE off
             IN  [off |-> last + 2, next_off |-> last + 2, ext_arg |-> 0,
                  acc |-> Append(st.acc, <<st.next_off, last + 2 - st.next_off, op, arg>>)]

\* up to n iterations of the loop
RECURSIVE unpack_steps(_, _, _, _)
unpack_steps(v, code, st, n) ==
    IF n = 0 \/ st.off >= Len(code) THEN st
    ELSE unpack_steps(v, code, unpack_step(v, code, st), n - 1)

\* the loop, run to its end in blocks of 32 iterations
RECURSIVE unpack_loop(_, _, _)
unpack_loop(v, code, st) ==
    IF st.off >= Len(code) THEN st.acc
    ELSE unpack_loop(v, code, unpack_steps(v, code, st, 32))

unpack_opargs(v, code) ==
    unpack_loop(v, code, [off |-> 0, next_off |-> 0, ext_arg |-> 0, acc |-> <<>>])

\* calc_max_stack over already decoded instructions
RECURSIVE max_stack_loop(_, _, _, _)
max_stack_loop(v, ins, stack, max_stack) ==
    IF ins = <<>> THEN max_stack
    ELSE LET op == Head(ins)[3]
             s == stack + stack_effect(v, op, IF op >= HAVE_ARGUMENT THEN Head(ins)[4]
                                           ELSE "None")
         IN  max_stack_loop(v, Tail(ins), s, Max(s, max_stack))

\* the stack depth at the end of the sequence instead of its maximum
RECURSIVE stack_at_end(_, _, _)
stack_at_end(v, ins, stack) ==
    IF ins = <<>> THEN stack
    ELSE LET op == Head(ins)[3]
         IN  stack_at_end(v, Tail(ins),
                stack + stack_effect(v, op, IF op >= HAVE_ARGUMENT THEN Head(ins)[4]
                                            ELSE "None"))

calc_stack_at_end(v, code) == stack_at_end(v, unpack_opargs(v, code), 0)

calc_max_stack(v, code) == max_stack_loop(v, unpack_opargs(v, code), 0, 0)

-----------------------------------------------------------------------------
(* class Branch                                                            *)

\* Branch.__init__
Branch(v, offset, length, opcode, arg) ==
    LET is_relative == opcode \in hasjrel(v)
        is_backward == is_JUMP_BACKWARD(v, opcode)
    IN  [offset |-> offset, length |-> length, opcode |-> opcode,
         is_relative |-> is_relative, is_backward |-> is_backward,
         target |-> IF ~is_relative THEN branch2offset(v, arg)
                    ELSE offset + length
                         + branch2offset(v, IF is_backward THEN -arg ELSE arg)]

\* Branch.arg
Branch_arg(v, b) ==
    IF b.is_relative
    THEN offset2branch(v, Abs(b.target - (b.offset + b.length)))
    ELSE offset2branch(v, b.target)

\* Branch.adjust with the two comparisons exchanged
Branch_adjust_exchanged(b, insert_offset, insert_length) ==
    [b EXCEPT !.offset = IF b.offset > insert_offset THEN @ + insert_length ELSE @,
              !.target = IF b.target >= insert_offset THEN @ + insert_length ELSE @]

\* Branch.adjust
Branch_adjust(b, insert_offset, insert_length) ==
    [b EXCEPT !.offset = IF b.offset >= insert_offset THEN @ + insert_length ELSE @,
              !.target = IF b.target > insert_offset THEN @ + insert_length ELSE @]

\* Branch.adjust_length: the value it returns
Branch_change(v, b) ==
    LET length_needed == 2 + 2 * arg_ext_needed(Branch_arg(v, b))
    IN  Max(0, length_needed - b.length)

\* an adjust_length that moves the target of every branch that grows
Branch_adjust_length_moving_target(v, b) ==
    LET change == Branch_change(v, b)
    IN  IF change # 0
        THEN [b EXCEPT !.target = @ + change,
                       !.length = 2 + 2 * arg_ext_needed(Branch_arg(v, b))]
        ELSE b

\* Branch.adjust_length: the branch it leaves
Branch_adjust_length(v, b) ==
    LET change == Branch_change(v, b)
    IN  IF change # 0
        THEN [b EXCEPT !.target = IF b.target > b.offset THEN @ + change ELSE @,
                       !.length = 2 + 2 * arg_ext_needed(Branch_arg(v, b))]
        ELSE b

\* Branch.code: its two assertions hold
Branch_code_ok(v, b) ==
    /\ b.length >= 2 + 2 * arg_ext_needed(Branch_arg(v, b))
    /\ opcode_arg_ok(Branch_arg(v, b), (b.length - 2) \div 2)

\* Branch.code
Branch_code(v, b) == opcode_arg(v, b.opcode, Branch_arg(v, b), (b.length - 2) \div 2)

\* Branch.from_code
Branch_from_code(v, co_code) ==
    LET ins == unpack_opargs(v, co_code)
        branch_opcodes == hasjrel(v) \cup hasjabs(v)
    IN  [k \in 1..Len(SelectSeq(ins, LAMBDA t : t[3] \in branch_opcodes)) |->
            LET t == SelectSeq(ins, LAMBDA u : u[3] \in branch_opcodes)[k]
            IN  Branch(v, t[1], t[2], t[3], t[4])]

-----------------------------------------------------------------------------
(* Big-endian varints and class ExceptionTableEntry                        *)

\* a write_varint_be that keeps the low six bits only
write_varint_low_chunk(n, mark_first) ==
    IF mark_first # 0 THEN <<(n % 64) + mark_first>> ELSE <<n % 64>>

\* write_varint_be
write_varint_be(n, mark_first) ==
    LET top_bit == bit_length(n) - 1
        first == top_bit - (top_bit % 6)
        count == IF first > 0 THEN first \div 6 ELSE 0
        data == [i \in 1..count |-> 64 + ((n \div (2 ^ (first - 6 * (i - 1)))) % 64)]
                \o <<n % 64>>
    IN  IF mark_first # 0
        THEN [data EXCEPT ![1] = IF (@ \div mark_first) % 2 = 1 THEN @ ELSE @ + mark_first]
        ELSE data

\* read_varint_be over the bytes of data from index pos (1-based); stop is
\* the StopIteration that next(it) raises on an exhausted iterator
RECURSIVE read_varint_loop(_, _, _)
read_varint_loop(data, pos, value) ==
    IF pos > Len(data) THEN [stop |-> TRUE, pos |-> pos, value |-> value]
    ELSE LET b == data[pos]
         IN  IF (b \div 64) % 2 = 1
             THEN read_varint_loop(data, pos + 1, (value + (b % 64)) * 64)
             ELSE [stop |-> FALSE, pos |-> pos + 1, value |-> value + (b % 64)]

read_varint_be(data, pos) == read_varint_loop(data, pos, 0)

\* ExceptionTableEntry.__init__
ExceptionTableEntry(start, end, target, other) ==
    [start |-> start, end |-> end, target |-> target, other |-> other]

\* ExceptionTableEntry.adjust with the end compared as the start is
ExceptionTableEntry_adjust_end_at(e, insert_offset, insert_length) ==
    [e EXCEPT !.start = IF insert_offset <= e.start THEN @ + insert_length ELSE @,
              !.end = IF insert_offset <= e.end THEN @ + insert_length ELSE @,
              !.target = IF insert_offset < e.target THEN @ + insert_length ELSE @]

\* ExceptionTableEntry.adjust with the start compared as the end is
ExceptionTableEntry_adjust_start_after(e, insert_offset, insert_length) ==
    [e EXCEPT !.start = IF insert_offset < e.start THEN @ + insert_length ELSE @,
              !.end = IF insert_offset < e.end THEN @ + insert_length ELSE @,
              !.target = IF insert_offset < e.target THEN @ + insert_length ELSE @]

\* ExceptionTableEntry.adjust
ExceptionTableEntry_adjust(e, insert_offset, insert_length) ==
    [e EXCEPT !.start = IF insert_offset <= e.start THEN @ + insert_length ELSE @,
              !.end = IF insert_offset < e.end THEN @ + insert_length ELSE @,
              !.target = IF insert_offset < e.target THEN @ + insert_length ELSE @]

\* ExceptionTableEntry.from_code: the "while True" loop, left by StopIteration
RECURSIVE ExceptionTableEntry_from_loop(_, _, _, _)
ExceptionTableEntry_from_loop(v, data, pos, entries) ==
    LET r1 == read_varint_be(data, pos)
        r2 == read_varint_be(data, r1.pos)
        r3 == read_varint_be(data, r2.pos)
        r4 == read_varint_be(data, r3.pos)
        start == branch2offset(v, r1.value)
        length == branch2offset(v, r2.value)
    IN  IF r1.stop \/ r2.stop \/ r3.stop \/ r4.stop THEN entries
        ELSE ExceptionTableEntry_from_loop(v, data, r4.pos,
                Append(entries, ExceptionTableEntry(start, start + length,
                                    branch2offset(v, r3.value), r4.value)))

ExceptionTableEntry_from_code(v, co_exceptiontable) ==
    ExceptionTableEntry_from_loop(v, co_exceptiontable, 1, <<>>)

\* ExceptionTableEntry.make_exceptiontable
make_exceptiontable(v, entries) ==
    Concat([i \in 1..Len(entries) |->
        LET e == entries[i]
        IN  write_varint_be(offset2branch(v, e.start), 128)
            \o write_varint_be(offset2branch(v, e.end - e.start), 0)
            \o write_varint_be(offset2branch(v, e.target), 0)
            \o write_varint_be(e.other, 0)])

-----------------------------------------------------------------------------
(* class LineEntry                                                         *)

\* LineEntry.__init__
LineEntry(start, end, number) == [start |-> start, end |-> end, number |-> number]

\* LineEntry.adjust with the start compared as ExceptionTableEntry.adjust does
LineEntry_adjust_at_or_after(l, insert_offset, insert_length) ==
    [l EXCEPT !.start = IF l.start >= insert_offset THEN @ + insert_length ELSE @,
              !.end = IF l.end > insert_offset THEN @ + insert_length ELSE @]

\* LineEntry.adjust
LineEntry_adjust(l, insert_offset, insert_length) ==
    [l EXCEPT !.start = IF l.start > insert_offset THEN @ + insert_length ELSE @,
              !.end = IF l.end > insert_offset THEN @ + insert_length ELSE @]

\* LineEntry.from_code; linestarts is what dis.findlinestarts(code) yields
LineEntry_from_code(linestarts, code_len) ==
    [i \in 1..Len(linestarts) |->
        LineEntry(linestarts[i][1],
                  IF i < Len(linestarts) THEN linestarts[i + 1][1] ELSE code_len,
                  linestarts[i][2])]

-----------------------------------------------------------------------------
(* The code objects an Editor is constructed from.                         *)

\* one instruction, as the compiler emits it
Ins(v, opcode, arg) == opcode_arg(v, opcode, arg, 0)

\* 3.8 - 3.10: a forward branch over two instructions, two global lookups
\* and an absolute branch back to the forward branch; 18 bytes
SmallCodeOld(v) ==
    [co_code |-> Ins(v, op_NOP, 0) \o Ins(v, op_LOAD_GLOBAL, 0)
                 \o Ins(v, op_JUMP_FORWARD, offset2branch(v, 10 - 6))
                 \o Ins(v, op_LOAD_CONST, 0) \o Ins(v, op_POP_TOP, 0)
                 \o Ins(v, op_LOAD_GLOBAL, 0) \o Ins(v, op_LOAD_GLOBAL, 1)
                 \o Ins(v, op_JUMP_ABSOLUTE, offset2branch(v, 4))
                 \o Ins(v, op_RETURN_VALUE, 0),
     co_consts |-> <<"None", "k">>,
     co_names |-> <<"g", "h">>,
     co_stacksize |-> 2,
     co_exceptiontable |-> <<>>,
     linestarts |-> << <<0, 1>>, <<2, 2>>, <<6, 3>>, <<10, 4>>, <<16, 5>> >>]

\* 3.11: the same shape; the global lookups carry their cache entries, the
\* branch back is relative. Protected regions [2,20) -> 20, an empty
\* [16,16) -> 46 and [20,46) -> 46.
SmallCodeNew(v) ==
    [co_code |-> Ins(v, op_NOP, 0) \o Ins(v, op_LOAD_GLOBAL, 1)
                 \o Ins(v, op_JUMP_FORWARD, offset2branch(v, 20 - 16))
                 \o Ins(v, op_LOAD_CONST, 0) \o Ins(v, op_POP_TOP, 0)
                 \o Ins(v, op_LOAD_GLOBAL, 0) \o Ins(v, op_LOAD_GLOBAL, 2)
                 \o Ins(v, op_JUMP_BACKWARD, offset2branch(v, 46 - 14))
                 \o Ins(v, op_RETURN_VALUE, 0),
     co_consts |-> <<"None", "k">>,
     co_names |-> <<"g", "h">>,
     co_stacksize |-> 2,
     co_exceptiontable |-> <<129, 9, 10, 0, 136, 0, 23, 1, 138, 13, 23, 0>>,
     linestarts |-> << <<0, 1>>, <<2, 2>>, <<16, 3>>, <<20, 4>>, <<46, 5>> >>]

\* 3.8 / 3.9: two branches whose operands are just below the first
\* EXTENDED_ARG threshold: an absolute one to 254 and a relative one to 256
BigCodeOld(v) ==
    [co_code |-> Ins(v, op_JUMP_ABSOLUTE, 254) \o Ins(v, op_JUMP_FORWARD, 252)
                 \o RepeatSeq(Ins(v, op_NOP, 0), 125)
                 \o Ins(v, op_LOAD_CONST, 0) \o Ins(v, op_RETURN_VALUE, 0),
     co_consts |-> <<"None">>,
     co_names |-> <<>>,
     co_stacksize |-> 1,
     co_exceptiontable |-> <<>>,
     linestarts |-> << <<0, 1>>, <<254, 2>> >>]

\* 3.11: relative branches with operand 255: forward from 0 to 512, forward
\* from 2 to 514 and backward from 516 to 8. Protected region [2,512) -> 514.
BigCodeNew(v) ==
    [co_code |-> Ins(v, op_JUMP_FORWARD, 255) \o Ins(v, op_JUMP_FORWARD, 255)
                 \o RepeatSeq(Ins(v, op_NOP, 0), 254)
                 \o Ins(v, op_LOAD_CONST, 0) \o Ins(v, op_POP_TOP, 0)
                 \o Ins(v, op_JUMP_BACKWARD, 255) \o Ins(v, op_RETURN_VALUE, 0),
     co_consts |-> <<"None">>,
     co_names |-> <<>>,
     co_stacksize |-> 1,
     co_exceptiontable |-> <<129, 67, 63, 68, 1, 0>>,
     linestarts |-> << <<0, 1>>, <<512, 2>> >>]

\* 3.11: a branch that is itself a branch target: forward from 2 to 514 with
\* operand 255, and backward from 514 (one prefix, operand 258) to the
\* forward branch at 2. No protected region.
LoopCodeNew(v) ==
    [co_code |-> Ins(v, op_NOP, 0) \o Ins(v, op_JUMP_FORWARD, 255)
                 \o RepeatSeq(Ins(v, op_NOP, 0), 255)
                 \o Ins(v, op_JUMP_BACKWARD, 258) \o Ins(v, op_RETURN_VALUE, 0),
     co_consts |-> <<"None">>,
     co_names |-> <<>>,
     co_stacksize |-> 1,
     co_exceptiontable |-> <<>>,
     linestarts |-> << <<0, 1>>, <<514, 2>> >>]

\* the code objects of each Python version
Codes(v) ==
    CASE v = 309 -> {SmallCodeOld(v), BigCodeOld(v)}
      [] v = 310 -> {SmallCodeOld(v)}
      [] v = 311 -> {SmallCodeNew(v), BigCodeNew(v), LoopCodeNew(v)}

-----------------------------------------------------------------------------
(* class Editor                                                            *)

idle == [at |-> "idle", i |-> 0, any_adjusted |-> FALSE, grown |-> <<>>]

\* no module-level function has been called
no_call == [op |-> "none", args |-> <<>>, ret |-> <<>>, raised |-> FALSE]

\* Editor.__init__
Init ==
    /\ PYTHON_VERSION \in {309, 310, 311}
    /\ orig_code \in Codes(PYTHON_VERSION)
    /\ consts = orig_code.co_consts
    /\ branches = Branch_from_code(PYTHON_VERSION, orig_code.co_code)
    /\ ex_table = IF PYTHON_VERSION >= 311
                  THEN ExceptionTableEntry_from_code(PYTHON_VERSION, orig_code.co_exceptiontable)
                  ELSE <<>>
    /\ lines = LineEntry_from_code(orig_code.linestarts, Len(orig_code.co_code))
    /\ patch = orig_code.co_code
    /\ max_addtl_stack = 0
    /\ finished = FALSE
    /\ pc = idle
    /\ log = <<>>
    /\ adj = <<>>
    /\ result = <<>>
    /\ codec = no_call

\* a call can be made: none is running, and the model's bound allows it
CanCall == pc.at = "idle" /\ Len(log) < MaxOps

\* the record of one call: what was called, what it returned, whether it
\* raised, and (for an insertion) whether its offset was the first byte of an
\* instruction of the buffer or the buffer's end
Call(op, args, ret, raised, at_boundary) ==
    [op |-> op, args |-> args, ret |-> ret, raised |-> raised,
     at_boundary |-> at_boundary]

\* the offsets at which an instruction of code starts, and the end of code
boundaries(v, code) ==
    LET ins == unpack_opargs(v, code)
    IN  {ins[k][1] : k \in 1..Len(ins)} \cup {Len(code)}

\* an add_const that returns the index of an equal constant the pool has
add_const_deduplicating(value) ==
    /\ CanCall
    /\ IF \E i \in 1..Len(consts) : consts[i] = value
       THEN /\ consts' = consts
            /\ log' = Append(log, Call("add_const", <<value>>,
                                       (CHOOSE i \in 1..Len(consts) : consts[i] = value) - 1,
                                       FALSE, TRUE))
       ELSE /\ consts' = Append(consts, value)
            /\ log' = Append(log, Call("add_const", <<value>>, Len(consts') - 1,
                                       FALSE, TRUE))
    /\ adj' = <<>>
    /\ UNCHANGED <<codec, PYTHON_VERSION, orig_code, branches, ex_table, lines, patch,
                   max_addtl_stack, finished, pc, result>>

\* Editor.add_const
add_const(value) ==
    /\ CanCall
    /\ consts' = Append(consts, value)
    /\ log' = Append(log, Call("add_const", <<value>>, Len(consts') - 1, FALSE, TRUE))
    /\ adj' = <<>>
    /\ UNCHANGED <<codec, PYTHON_VERSION, orig_code, branches, ex_table, lines, patch,
                   max_addtl_stack, finished, pc, result>>

\* a call sequence that leaves the call's return value on the stack
call_sequence_keeping_return(v, function, args) ==
    LET loads == Concat([i \in 1..Len(args) |-> opcode_arg(v, op_LOAD_CONST, args[i], 0)])
    IN  IF v >= 311
        THEN <<op_NOP, 0, op_PUSH_NULL, 0>> \o opcode_arg(v, op_LOAD_CONST, function, 0)
             \o loads
             \o opcode_arg(v, op_PRECALL, Len(args), 0) \o opcode_arg(v, op_CALL, Len(args), 0)
        ELSE <<op_NOP, 0>> \o opcode_arg(v, op_LOAD_CONST, function, 0)
             \o loads
             \o <<op_CALL_FUNCTION, Len(args)>>

\* insert_function_call: the sequence it builds, before insert[1] is set
call_sequence(v, function, args) ==
    LET loads == Concat([i \in 1..Len(args) |-> opcode_arg(v, op_LOAD_CONST, args[i], 0)])
    IN  IF v >= 311
        THEN <<op_NOP, 0, op_PUSH_NULL, 0>> \o opcode_arg(v, op_LOAD_CONST, function, 0)
             \o loads
             \o opcode_arg(v, op_PRECALL, Len(args), 0) \o opcode_arg(v, op_CALL, Len(args), 0)
             \o <<op_POP_TOP, 0>>
        ELSE <<op_NOP, 0>> \o opcode_arg(v, op_LOAD_CONST, function, 0)
             \o loads
             \o <<op_CALL_FUNCTION, Len(args), op_POP_TOP, 0>>

\* insert_function_call raises before it changes the Editor: an operand that
\* opcode_arg asserts on, or a byte outside 0..255 stored into the bytearray
call_sequence_raises(v, function, args) ==
    \/ ~opcode_arg_ok(function, 0)
    \/ \E i \in 1..Len(args) : ~opcode_arg_ok(args[i], 0)
    \/ v < 311 /\ Len(args) > 255
    \/ offset2branch(v, Len(call_sequence(v, function, args)) - 2) > 255

\* the sequence spliced into the patch: insert[1] = offset2branch(v, len_insert-2)
inserted_sequence(v, function, args) ==
    LET insert == call_sequence(v, function, args)
    IN  [insert EXCEPT ![2] = offset2branch(v, Len(insert) - 2)]

\* Editor.insert_function_call
insert_function_call(offset, function, args) ==
    /\ CanCall
    /\ IF call_sequence_raises(PYTHON_VERSION, function, args)
       THEN /\ log' = Append(log, Call("insert_function_call",
                                       <<offset, function, args>>, "Error", TRUE,
                                       offset \in boundaries(PYTHON_VERSION, patch)))
            /\ adj' = <<>>
            /\ UNCHANGED <<patch, lines, branches, ex_table, max_addtl_stack>>
       ELSE \E insert \in {inserted_sequence(PYTHON_VERSION, function, args)} :
            \E len_insert \in {Len(insert)} :
                /\ max_addtl_stack' = Max(max_addtl_stack,
                                          calc_max_stack(PYTHON_VERSION, insert))
                /\ patch' = SliceAssign(patch, offset, offset, insert)
                /\ lines' = [i \in 1..Len(lines) |->
                                LineEntry_adjust(lines[i], offset, len_insert)]
                /\ branches' = [i \in 1..Len(branches) |->
                                Branch_adjust(branches[i], offset, len_insert)]
                /\ ex_table' = [i \in 1..Len(ex_table) |->
                                ExceptionTableEntry_adjust(ex_table[i], offset, len_insert)]
                /\ log' = Append(log, Call("insert_function_call",
                                           <<offset, function, args>>, len_insert, FALSE,
                                           offset \in boundaries(PYTHON_VERSION, patch)))
                /\ adj' = << <<offset, len_insert>> >>
    /\ UNCHANGED <<codec, PYTHON_VERSION, orig_code, consts, finished, pc, result>>

\* a find_load_globals that stops at the first match
find_load_globals_first(v, code, name_index) ==
    LET all == SelectSeq(unpack_opargs(v, code),
                         LAMBDA t : /\ t[3] = op_LOAD_GLOBAL
                                    /\ IF v >= 311 THEN t[4] \div 2 = name_index
                                       ELSE t[4] = name_index)
    IN  IF all = <<>> THEN <<>> ELSE <<Head(all)>>

\* replace_global_with_const: find_load_globals over the live patch
find_load_globals(v, code, name_index) ==
    SelectSeq(unpack_opargs(v, code),
              LAMBDA t : /\ t[3] = op_LOAD_GLOBAL
                         /\ IF v >= 311 THEN t[4] \div 2 = name_index
                            ELSE t[4] = name_index)

\* the replacement of one matched instruction
replacement(v, op_arg, const_index) ==
    (IF v >= 311 /\ op_arg % 2 = 1
     THEN opcode_arg(v, op_PUSH_NULL, 0, 0) ELSE <<>>)
    \o opcode_arg(v, op_LOAD_CONST, const_index, 0)

\* replace_global_with_const: the loop over the matches; st holds the patch,
\* the side tables and the adjust calls made so far
RECURSIVE replace_loop(_, _, _, _, _)
replace_loop(v, matches, const_index, delta, st) ==
    IF matches = <<>> THEN st
    ELSE LET m == Head(matches)
             repl == replacement(v, m[4], const_index)
             op_off == m[1] + delta
             op_len == m[2]
             change == Len(repl) - op_len
             new_patch == SliceAssign(st.patch, op_off, op_off + op_len, repl)
         IN  replace_loop(v, Tail(matches), const_index, delta + change,
                IF change # 0
                THEN [patch |-> new_patch,
                      lines |-> [i \in 1..Len(st.lines) |->
                                    LineEntry_adjust(st.lines[i], op_off, change)],
                      branches |-> [i \in 1..Len(st.branches) |->
                                    Branch_adjust(st.branches[i], op_off, change)],
                      ex_table |-> [i \in 1..Len(st.ex_table) |->
                                    ExceptionTableEntry_adjust(st.ex_table[i], op_off, change)],
                      adj |-> Append(st.adj, <<op_off, change>>)]
                ELSE [st EXCEPT !.patch = new_patch])

\* co_names.index(global_name)
name_index_of(co_names, global_name) ==
    CHOOSE i \in 1..Len(co_names) :
        /\ co_names[i] = global_name
        /\ \A j \in 1..(i - 1) : co_names[j] # global_name

\* Editor.replace_global_with_const
replace_global_with_const(global_name, const_index) ==
    /\ CanCall
    /\ \E matches \in {IF \E i \in 1..Len(orig_code.co_names) :
                              orig_code.co_names[i] = global_name
                       THEN find_load_globals(PYTHON_VERSION, patch,
                               name_index_of(orig_code.co_names, global_name) - 1)
                       ELSE <<>>} :
       \E raises \in {matches # <<>> /\ ~opcode_arg_ok(const_index, 0)} :
       \E st \in {IF raises
                  THEN [patch |-> patch, lines |-> lines, branches |-> branches,
                        ex_table |-> ex_table, adj |-> <<>>]
                  ELSE replace_loop(PYTHON_VERSION, matches, const_index, 0,
                          [patch |-> patch, lines |-> lines, branches |-> branches,
                           ex_table |-> ex_table, adj |-> <<>>])} :
           /\ patch' = st.patch
           /\ lines' = st.lines
           /\ branches' = st.branches
           /\ ex_table' = st.ex_table
           /\ adj' = st.adj
           /\ log' = Append(log, Call("replace_global_with_const",
                                      <<global_name, const_index>>,
                                      IF raises THEN "Error" ELSE "None", raises, TRUE))
    /\ UNCHANGED <<codec, PYTHON_VERSION, orig_code, consts, max_addtl_stack, finished,
                   pc, result>>

\* a finish that does not check the flag
finish_never_asserts(is_finished) == FALSE

\* Editor.finish: whether "assert not self.finished" fails
finish_asserts(is_finished) == is_finished

\* Editor.finish: "assert not self.finished", then the growth loop is entered
finish_call ==
    /\ CanCall
    /\ IF finish_asserts(finished)
       THEN /\ log' = Append(log, Call("finish", <<>>, "AssertionError", TRUE, TRUE))
            /\ pc' = pc
       ELSE /\ log' = Append(log, Call("finish", <<>>, "running", FALSE, TRUE))
            /\ pc' = [at |-> "scan", i |-> 1, any_adjusted |-> FALSE, grown |-> <<>>]
    /\ adj' = <<>>
    /\ UNCHANGED <<codec, PYTHON_VERSION, orig_code, consts, branches, ex_table, lines,
                   patch, max_addtl_stack, finished, result>>

\* Editor.finish: one iteration of "for b in self.branches" in the growth loop
finish_adjust_length ==
    /\ pc.at = "scan"
    /\ pc.i <= Len(branches)
    /\ \E b \in {branches[pc.i]} :
       \E change \in {Branch_change(PYTHON_VERSION, b)} :
           IF change # 0
           THEN /\ patch' = SliceAssign(patch, b.offset, b.offset, Repeat(0, change))
                /\ branches' = [j \in 1..Len(branches) |->
                                  IF j = pc.i THEN Branch_adjust_length(PYTHON_VERSION, b)
                                  ELSE Branch_adjust(branches[j], b.offset, change)]
                /\ lines' = [j \in 1..Len(lines) |->
                                LineEntry_adjust(lines[j], b.offset, change)]
                /\ ex_table' = [j \in 1..Len(ex_table) |->
                                ExceptionTableEntry_adjust(ex_table[j], b.offset, change)]
                /\ adj' = << <<b.offset, change>> >>
                /\ pc' = [pc EXCEPT !.i = @ + 1, !.any_adjusted = TRUE,
                                    !.grown = Append(@, pc.i)]
           ELSE /\ adj' = <<>>
                /\ pc' = [pc EXCEPT !.i = @ + 1]
                /\ UNCHANGED <<patch, branches, lines, ex_table>>
    /\ UNCHANGED <<codec, PYTHON_VERSION, orig_code, consts, max_addtl_stack, finished,
                   log, result>>

\* a growth loop that makes a single scan
scan_once(any_adjusted) == FALSE

\* a growth loop that never sees any_adjusted reset
scan_forever(any_adjusted) == TRUE

\* the "while any_adjusted" test after a full scan: whether another scan follows
scan_again(any_adjusted) == any_adjusted

\* Editor.finish: the end of one scan of the growth loop
finish_scan_end ==
    /\ pc.at = "scan"
    /\ pc.i > Len(branches)
    /\ pc' = IF scan_again(pc.any_adjusted)
             THEN [pc EXCEPT !.i = 1, !.any_adjusted = FALSE]
             ELSE [pc EXCEPT !.at = "emit", !.i = 1]
    /\ adj' = <<>>
    /\ UNCHANGED <<codec, PYTHON_VERSION, orig_code, consts, branches, ex_table, lines,
                   patch, max_addtl_stack, finished, log, result>>

\* Editor.finish: "for b in self.branches: assert ...; self.patch[...] = b.code()";
\* ok is FALSE when an assertion (or an index out of range) stopped the loop
RECURSIVE emit_loop(_, _, _, _)
emit_loop(v, bs, i, p) ==
    IF i > Len(bs) THEN [ok |-> TRUE, patch |-> p]
    ELSE LET b == bs[i]
         IN  IF \/ b.offset + b.length - 1 > Len(p)
                \/ p[b.offset + b.length - 1] # b.opcode
                \/ ~Branch_code_ok(v, b)
             THEN [ok |-> FALSE, patch |-> p]
             ELSE emit_loop(v, bs, i + 1,
                    SliceAssign(p, b.offset, Min(b.offset + b.length, Len(p)),
                                Branch_code(v, b)))

\* what finish returns: orig_code.replace(...); the line table is not modelled
finished_code(p) ==
    [co_code |-> p,
     co_stacksize |-> orig_code.co_stacksize + max_addtl_stack,
     co_consts |-> consts,
     co_exceptiontable |-> IF PYTHON_VERSION >= 311
                           THEN make_exceptiontable(PYTHON_VERSION, ex_table)
                           ELSE orig_code.co_exceptiontable]

\* Editor.finish: the branches are written back and the new code is returned
finish_emit ==
    /\ pc.at = "emit"
    /\ \E r \in {emit_loop(PYTHON_VERSION, branches, 1, patch)} :
           /\ patch' = r.patch
           /\ finished' = (IF r.ok THEN TRUE ELSE finished)
           /\ result' = IF r.ok THEN Append(result, finished_code(r.patch)) ELSE result
           /\ log' = [log EXCEPT ![Len(log)].ret = IF r.ok THEN "ok" ELSE "AssertionError",
                                  ![Len(log)].raised = ~r.ok]
    /\ pc' = idle
    /\ adj' = <<>>
    /\ UNCHANGED <<codec, PYTHON_VERSION, orig_code, consts, branches, ex_table, lines,
                   max_addtl_stack>>

-----------------------------------------------------------------------------
(* The calls a client makes.                                               *)

\* offsets a client inserts at: the ends of the buffer and every offset the
\* side tables name
InsertOffsets ==
    {o \in ({0, Len(patch)}
            \cup {branches[i].offset : i \in 1..Len(branches)}
            \cup {branches[i].offset + branches[i].length : i \in 1..Len(branches)}
            \cup {branches[i].target : i \in 1..Len(branches)}
            \cup {ex_table[i].start : i \in 1..Len(ex_table)}
            \cup {ex_table[i].end : i \in 1..Len(ex_table)}
            \cup {ex_table[i].target : i \in 1..Len(ex_table)}
            \cup {lines[i].start : i \in 1..Len(lines)}) :
        0 <= o /\ o <= Len(patch)}

\* constant indices passed as the function and as each argument
FunctionIndices == {0}

\* the argument lists passed: none, and one constant
ArgLists == {<<>>, <<1>>}

ConstValues == {"None", "probe"}

\* (global_name, const_index) passed to replace_global_with_const: a name
\* the code looks up, replaced by a constant whose load needs no prefix and
\* by one whose load needs an EXTENDED_ARG, and a name the code does not have
Replacements == {<<"g", 0>>, <<"g", 256>>, <<"absent", 0>>}

Next ==
    \/ \E value \in ConstValues : add_const(value)
    \/ \E offset \in InsertOffsets, function \in FunctionIndices, args \in ArgLists :
          insert_function_call(offset, function, args)
    \/ \E r \in Replacements : replace_global_with_const(r[1], r[2])
    \/ finish_call
    \/ finish_adjust_length
    \/ finish_scan_end
    \/ finish_emit

Spec == Init /\ [][Next]_vars

\* finish is one synchronous call: once entered, each iteration of its growth
\* loop and each test of "while any_adjusted" is followed by the next
FairSpec ==
    /\ Spec
    /\ WF_vars(finish_adjust_length)
    /\ WF_vars(finish_scan_end)

-----------------------------------------------------------------------------
(* The module-level functions and static methods, called on their own.     *)

\* the most bytes in a stream given to ExceptionTableEntry.from_code: one
\* record of four one-byte varints and the first byte of the next
MaxTableLen == 5

\* bytes of an exception table: final and continued chunks, with and without
\* the bit that marks the start of a record
TableByteValues == {0, 64, 65, 128, 193}

\* the byte streams of at most n bytes, without those that continue a
\* varint beyond five chunks (the 30 bits a code offset fits in)
RECURSIVE ByteStreams(_)
ByteStreams(n) ==
    IF n = 0 THEN {<<>>}
    ELSE LET shorter == ByteStreams(n - 1)
             longest == {t \in shorter : Len(t) = n - 1}
         IN  shorter \cup
             {t \in {Append(s, b) : s \in longest, b \in TableByteValues} :
                 n <= 5 \/ \E i \in (n - 5)..n : (t[i] \div 64) % 2 = 0}

\* values passed to write_varint_be: of one, two and three chunks
VarintValues == {0, 1, 63, 64, 65, 4095, 4096, 4097}

\* the entries passed to make_exceptiontable
EntryValues ==
    {ExceptionTableEntry(start, start + length, target, other) :
        start \in {0, 128, 8192}, length \in {0, 130}, target \in {2, 8194},
        other \in {0, 65}}

\* the most entries in a list given to make_exceptiontable
MaxEntries == 2

\* the lists of at most n entries
RECURSIVE EntryLists(_)
EntryLists(n) ==
    IF n = 0 THEN {<<>>}
    ELSE LET shorter == EntryLists(n - 1)
         IN  shorter \cup {Append(s, e) : s \in {t \in shorter : Len(t) = n - 1},
                                         e \in EntryValues}

\* a module-level call and what it returned
CodecCall(op, args, ret, raised) ==
    [op |-> op, args |-> args, ret |-> ret, raised |-> raised]

\* ExceptionTableEntry.from_code(code) on a code object with this
\* co_exceptiontable: StopIteration is caught, the entries read are returned
call_from_code(co_exceptiontable) ==
    /\ codec = no_call
    /\ codec' = CodecCall("from_code", <<co_exceptiontable>>,
                          ExceptionTableEntry_from_code(PYTHON_VERSION, co_exceptiontable),
                          FALSE)
    /\ UNCHANGED <<PYTHON_VERSION, orig_code, consts, branches, ex_table, lines,
                   patch, max_addtl_stack, finished, pc, log, adj, result>>

\* ExceptionTableEntry.make_exceptiontable(entries)
call_make_exceptiontable(entries) ==
    /\ codec = no_call
    /\ codec' = CodecCall("make_exceptiontable", <<entries>>,
                          make_exceptiontable(PYTHON_VERSION, entries), FALSE)
    /\ UNCHANGED <<PYTHON_VERSION, orig_code, consts, branches, ex_table, lines,
                   patch, max_addtl_stack, finished, pc, log, adj, result>>

\* write_varint_be(n, mark_first)
call_write_varint_be(n, mark_first) ==
    /\ codec = no_call
    /\ codec' = CodecCall("write_varint_be", <<n, mark_first>>,
                          write_varint_be(n, mark_first), FALSE)
    /\ UNCHANGED <<PYTHON_VERSION, orig_code, consts, branches, ex_table, lines,
                   patch, max_addtl_stack, finished, pc, log, adj, result>>

\* opcodes passed to opcode_arg: without and with inline cache entries (from
\* 3.11), CACHE itself and the two extension prefixes
OpcodeValues ==
    {op_CACHE, op_NOP, op_EXTENDED_ARG_QUICK, op_LOAD_CONST, op_LOAD_GLOBAL,
     op_EXTENDED_ARG, op_CALL}

\* operands passed to opcode_arg: the least and the greatest of each number
\* of prefixes, up to 2^31 - 1, the greatest integer the model checker holds
OperandValues == {0, 1, 255, 256, 65535, 65536, 16777215, 16777216, 2147483647}

\* min_ext passed to opcode_arg; 4 asks for more prefixes than opcode_arg accepts
MinExtValues == 0..4

\* opcode_arg(opcode, arg, min_ext): its "assert ext <= 3" raises
call_opcode_arg(opcode, arg, min_ext) ==
    /\ codec = no_call
    /\ codec' = IF opcode_arg_ok(arg, min_ext)
                THEN CodecCall("opcode_arg", <<opcode, arg, min_ext>>,
                               opcode_arg(PYTHON_VERSION, opcode, arg, min_ext), FALSE)
                ELSE CodecCall("opcode_arg", <<opcode, arg, min_ext>>, <<>>, TRUE)
    /\ UNCHANGED <<PYTHON_VERSION, orig_code, consts, branches, ex_table, lines,
                   patch, max_addtl_stack, finished, pc, log, adj, result>>

\* the instructions whose encodings are concatenated, <<opcode, arg, min_ext>>:
\* with and without prefixes, and a prefix encoded as an instruction
InstructionValues ==
    {<<opcode, arg, min_ext>> :
        opcode \in {op_CACHE, op_NOP, op_LOAD_GLOBAL}, arg \in {1, 256}, min_ext \in {0, 1}}
    \cup {<<op_EXTENDED_ARG, 1, 0>>}

\* the most instructions in a buffer given to unpack_opargs
MaxInstructions == 2

\* the lists of at most n instructions
RECURSIVE InstructionLists(_)
InstructionLists(n) ==
    IF n = 0 THEN {<<>>}
    ELSE LET shorter == InstructionLists(n - 1)
         IN  shorter \cup {Append(s, e) : s \in {t \in shorter : Len(t) = n - 1},
                                         e \in InstructionValues}

\* unpack_opargs(code), for code made of the encodings of these instructions
call_unpack_opargs(instructions) ==
    /\ codec = no_call
    /\ \E code \in {Concat([i \in 1..Len(instructions) |->
                        opcode_arg(PYTHON_VERSION, instructions[i][1],
                                   instructions[i][2], instructions[i][3])])} :
           codec' = CodecCall("unpack_opargs", <<code, instructions>>,
                              unpack_opargs(PYTHON_VERSION, code), FALSE)
    /\ UNCHANGED <<PYTHON_VERSION, orig_code, consts, branches, ex_table, lines,
                   patch, max_addtl_stack, finished, pc, log, adj, result>>

CodecInit ==
    /\ Init
    /\ orig_code = IF PYTHON_VERSION >= 311 THEN SmallCodeNew(PYTHON_VERSION)
                   ELSE SmallCodeOld(PYTHON_VERSION)

\* each call is made on its own: the functions keep no state
CodecNext ==
    \/ /\ codec = no_call
       /\ \E bytes \in ByteStreams(MaxTableLen) : call_from_code(bytes)
    \/ /\ codec = no_call
       /\ \E entries \in EntryLists(MaxEntries) : call_make_exceptiontable(entries)
    \/ /\ codec = no_call
       /\ \E n \in VarintValues, mark_first \in {0, 128} :
             call_write_varint_be(n, mark_first)
    \/ /\ codec = no_call
       /\ \E opcode \in OpcodeValues, arg \in OperandValues, min_ext \in MinExtValues :
             call_opcode_arg(opcode, arg, min_ext)
    \/ /\ codec = no_call
       /\ \E instructions \in InstructionLists(MaxInstructions) :
             call_unpack_opargs(instructions)

CodecSpec == CodecInit /\ [][CodecNext]_vars

-----------------------------------------------------------------------------
(* Properties.                                                             *)

\* the side tables as Editor.__init__ decoded them from the original code
orig_branches == Branch_from_code(PYTHON_VERSION, orig_code.co_code)

orig_ex_table ==
    IF PYTHON_VERSION >= 311
    THEN ExceptionTableEntry_from_code(PYTHON_VERSION, orig_code.co_exceptiontable)
    ELSE <<>>

orig_lines == LineEntry_from_code(orig_code.linestarts, Len(orig_code.co_code))

\* the last call made on the Editor
LastCall == log[Len(log)]

\* this step is a call of op (the call is logged by the step)
IsCall(op) == Len(log') = Len(log) + 1 /\ log'[Len(log')].op = op

\* every call so far was an insert_function_call that returned
OnlyInsertions ==
    /\ pc.at = "idle"
    /\ \A k \in 1..Len(log) : log[k].op = "insert_function_call" /\ ~log[k].raised

\* the sum of the lengths returned by the first k insertions
RECURSIVE InsertedBefore(_)
InsertedBefore(k) == IF k = 0 THEN 0 ELSE InsertedBefore(k - 1) + log[k].ret

\* the offset of the k-th insertion in the original code: the offset passed,
\* less what the earlier insertions shifted it by
OrigOffset(k) == log[k].args[1] - InsertedBefore(k - 1)

IncreasingOffsets ==
    \A j, k \in 1..Len(log) : j < k => OrigOffset(j) < OrigOffset(k)

\* x plus the lengths of the first k insertions whose original offset p
\* satisfies the boundary rule: x >= p (at_or_after) or x > p
RECURSIVE Shifted(_, _, _)
Shifted(x, at_or_after, k) ==
    IF k = 0 THEN x
    ELSE Shifted(x, at_or_after, k - 1)
         + (IF (at_or_after /\ x >= OrigOffset(k)) \/ x > OrigOffset(k)
            THEN log[k].ret ELSE 0)

\* C1: after insertions at strictly increasing original offsets, every
\* Branch offset and target, every ExceptionTableEntry start, end and target
\* and every LineEntry start and end is its original value plus the lengths of
\* the insertions whose original offset satisfies the field's boundary rule
\* (at or after the insertion for Branch.offset and the exception start,
\* strictly after it for the others).
C1_OffsetMonotonicity ==
    (OnlyInsertions /\ IncreasingOffsets) =>
        /\ \A i \in 1..Len(branches) :
            /\ branches[i].offset = Shifted(orig_branches[i].offset, TRUE, Len(log))
            /\ branches[i].target = Shifted(orig_branches[i].target, FALSE, Len(log))
        /\ \A i \in 1..Len(ex_table) :
            /\ ex_table[i].start = Shifted(orig_ex_table[i].start, TRUE, Len(log))
            /\ ex_table[i].end = Shifted(orig_ex_table[i].end, FALSE, Len(log))
            /\ ex_table[i].target = Shifted(orig_ex_table[i].target, FALSE, Len(log))
        /\ \A i \in 1..Len(lines) :
            /\ lines[i].start = Shifted(orig_lines[i].start, FALSE, Len(log))
            /\ lines[i].end = Shifted(orig_lines[i].end, FALSE, Len(log))

\* two insertions at increasing original offsets, the second exactly at a
\* branch target and at an exception entry's start, with fields moved by
\* both, by the first only and by neither
C1_Witness ==
    /\ OnlyInsertions /\ IncreasingOffsets /\ Len(log) >= 2
    /\ \E i \in 1..Len(branches) : orig_branches[i].target = OrigOffset(2)
    /\ \E i \in 1..Len(ex_table) : orig_ex_table[i].start = OrigOffset(2)
    /\ \E i \in 1..Len(lines) :
          lines[i].start = orig_lines[i].start + log[1].ret + log[2].ret
    /\ \E i \in 1..Len(lines) :
          lines[i].start = orig_lines[i].start + log[1].ret /\ log[1].ret > 0
    /\ \E i \in 1..Len(lines) : lines[i].end = orig_lines[i].end

\* every insertion so far was made at the first byte of an instruction of the
\* buffer, or at its end
InsertionsAtBoundaries == \A k \in 1..Len(log) : log[k].at_boundary

\* C2: when the growth loop of finish exits, every Branch has a length of at
\* least 2 + 2 * (extension prefixes its operand needs), Branch.code() has
\* exactly that many bytes, and decoding them at the branch's offset gives the
\* same opcode and the same absolute target.
C2_BranchSelfConsistent ==
    pc.at = "emit" =>
        \A i \in 1..Len(branches) :
            LET b == branches[i]
                bytes == Branch_code(PYTHON_VERSION, b)
                ins == unpack_opargs(PYTHON_VERSION, bytes)
            IN  /\ b.length >= 2 + 2 * arg_ext_needed(Branch_arg(PYTHON_VERSION, b))
                /\ Branch_code_ok(PYTHON_VERSION, b)
                /\ Len(bytes) = b.length
                /\ Len(ins) = 1
                /\ ins[1][1] = 0 /\ ins[1][2] = b.length /\ ins[1][3] = b.opcode
                /\ Branch(PYTHON_VERSION, b.offset, ins[1][2], ins[1][3], ins[1][4]).target
                      = b.target

\* the loop has exited after a branch grew in a later scan than a branch that
\* follows it in the list: its operand crossed the threshold only because of
\* that growth
C2_Witness ==
    /\ pc.at = "emit"
    /\ \E k \in 1..(Len(pc.grown) - 1) : pc.grown[k] > pc.grown[k + 1]

\* C4: as long as insertions are made at instruction boundaries, the byte at
\* offset + length - 2 of every Branch is its opcode, in every state: after
\* construction, after each call and after each growth step inside finish.
C4_OpcodeInPlace ==
    InsertionsAtBoundaries =>
        \A i \in 1..Len(branches) :
            /\ branches[i].offset + branches[i].length - 1 \in 1..Len(patch)
            /\ patch[branches[i].offset + branches[i].length - 1] = branches[i].opcode

\* inside finish, after a growth step that followed an insertion made exactly
\* at a branch
C4_Witness ==
    /\ pc.at = "scan" /\ Len(pc.grown) >= 1
    /\ InsertionsAtBoundaries
    /\ \E k \in 1..Len(log) :
          /\ log[k].op = "insert_function_call"
          /\ \E i \in 1..Len(branches) : log[k].args[1] = orig_branches[i].offset

\* C5: a call of finish on a finished Editor raises the assertion, leaves the
\* Editor as it was and returns no second function representation.
C5_SecondFinishAsserts ==
    /\ [][(finished /\ IsCall("finish")) =>
            /\ log'[Len(log')].raised /\ log'[Len(log')].ret = "AssertionError"
            /\ pc' = pc /\ result' = result
            /\ UNCHANGED editor]_vars
    /\ [](Len(result) <= 1)

\* finish has been called twice: the first call returned, the second raised
C5_Witness ==
    /\ Len(log) = 2 /\ pc.at = "idle"
    /\ log[1].op = "finish" /\ log[1].ret = "ok"
    /\ log[2].op = "finish" /\ log[2].raised
    /\ Len(result) = 1 /\ finished

\* C3: the growth loop of finish terminates: once entered, a full scan in
\* which no branch grows is reached and the loop is left; and no step ever
\* makes a branch shorter.
C3_GrowthLoopTerminates ==
    /\ (pc.at = "scan") ~> (pc.at = "emit")
    /\ [][\A i \in 1..Len(branches) : branches'[i].length >= branches[i].length]_vars

\* the loop has been left after three branches grew
C3_Witness == pc.at = "emit" /\ Len(pc.grown) >= 3

\* C6 as claimed: on a finished Editor every call raises and leaves the patch
\* buffer, the constant pool and the side tables unchanged.
C6_TerminalAfterFinish ==
    [][(finished /\ Len(log') = Len(log) + 1) =>
            /\ log'[Len(log')].raised
            /\ UNCHANGED <<patch, consts, branches, ex_table, lines>>]_vars


\* Branch.adjust's rule, applied for each call in turn
RECURSIVE BranchRule(_, _)
BranchRule(b, calls) ==
    IF calls = <<>> THEN b
    ELSE LET io == Head(calls)[1]
             il == Head(calls)[2]
         IN  BranchRule([offset |-> IF b.offset >= io THEN b.offset + il ELSE b.offset,
                         target |-> IF b.target > io THEN b.target + il ELSE b.target,
                         length |-> b.length, opcode |-> b.opcode,
                         is_relative |-> b.is_relative, is_backward |-> b.is_backward],
                        Tail(calls))

\* C7: adjust(insert_offset, insert_length) moves a branch's offset by
\* insert_length iff offset >= insert_offset and its target iff
\* target > insert_offset, and changes nothing else; a branch at the insertion
\* point ends after the inserted bytes, a target at the insertion point stays
\* and is the first inserted byte. (In a growth step of finish the branch that
\* grew is not adjusted.)
C7_BranchAdjust ==
    [][/\ \A i \in 1..Len(branches) :
            (pc.at = "scan" /\ adj' # <<>> /\ i = pc.i)
            \/ branches'[i] = BranchRule(branches[i], adj')
       /\ (IsCall("insert_function_call") /\ ~log'[Len(log')].raised) =>
            LET io == log'[Len(log')].args[1]
                il == log'[Len(log')].ret
            IN  /\ adj' = << <<io, il>> >>
                /\ il > 0
                /\ \A i \in 1..Len(branches) :
                    /\ branches[i].offset = io => branches'[i].offset = io + il
                    /\ branches[i].target = io =>
                          /\ branches'[i].target = io
                          /\ patch'[io + 1] = op_NOP
                          /\ SubSeq(patch', io + 1, io + il)
                                = inserted_sequence(PYTHON_VERSION,
                                      log'[Len(log')].args[2], log'[Len(log')].args[3])]_vars

\* after an insertion made at a branch that is also another branch's target
C7_Witness ==
    /\ pc.at = "idle" /\ Len(log) >= 1 /\ Len(adj) = 1
    /\ LastCall.op = "insert_function_call"
    /\ \E i, j \in 1..Len(branches) :
          /\ branches[i].offset = adj[1][1] + adj[1][2]
          /\ branches[j].target = adj[1][1]
          /\ patch[branches[j].target + 1] = op_NOP

\* ExceptionTableEntry.adjust's rule, applied for each call in turn
RECURSIVE EntryRule(_, _)
EntryRule(e, calls) ==
    IF calls = <<>> THEN e
    ELSE LET io == Head(calls)[1]
             il == Head(calls)[2]
         IN  EntryRule([start |-> IF io <= e.start THEN e.start + il ELSE e.start,
                        end |-> IF io < e.end THEN e.end + il ELSE e.end,
                        target |-> IF io < e.target THEN e.target + il ELSE e.target,
                        other |-> e.other],
                       Tail(calls))

\* C8: adjust(insert_offset, insert_length) moves start iff
\* insert_offset <= start, end iff insert_offset < end and target iff
\* insert_offset < target, each by insert_length, and never changes other.
C8_EntryAdjust ==
    [][\A i \in 1..Len(ex_table) : ex_table'[i] = EntryRule(ex_table[i], adj')]_vars

\* after an adjust at an offset that was one entry's start and another's end
\* and target
C8_Witness ==
    /\ Len(adj) = 1
    /\ \E i, j \in 1..Len(ex_table) :
          /\ orig_ex_table[i].start = adj[1][1]
          /\ ex_table[i].start = adj[1][1] + adj[1][2]
          /\ ex_table[j].end = adj[1][1] /\ ex_table[j].target = adj[1][1]
          /\ orig_ex_table[j].end = adj[1][1]
          /\ ex_table[j].start < adj[1][1]

\* this step is an insert_function_call that returned
Inserted == IsCall("insert_function_call") /\ ~log'[Len(log')].raised

\* C9 as claimed: an insertion exactly at a region's start extends the region
\* (the inserted bytes lie inside [start, end) and end - start grows by the
\* inserted length); one exactly at its end does not.
C9_InsertionAtStartExtends ==
    [][Inserted =>
        LET io == log'[Len(log')].args[1]
            il == log'[Len(log')].ret
        IN  \A i \in 1..Len(ex_table) :
              /\ ex_table[i].start = io =>
                    /\ ex_table'[i].start <= io /\ io + il <= ex_table'[i].end
                    /\ ex_table'[i].end - ex_table'[i].start
                          = ex_table[i].end - ex_table[i].start + il
              /\ (ex_table[i].end = io /\ ex_table[i].start # io) =>
                    /\ ex_table'[i].end - ex_table'[i].start
                          = ex_table[i].end - ex_table[i].start
                    /\ ex_table'[i].end <= io]_vars

\* C9, amended: an insertion exactly at a region's start does not extend the
\* region: start moves by the inserted length, so the inserted bytes lie
\* before [start, end) and end - start does not grow (for a non-empty region
\* end moves too and end - start is unchanged); an insertion exactly at the
\* region's end does not extend it either: end is unchanged, the inserted
\* bytes lie outside [start, end) and end - start does not grow (for a
\* non-empty region it is unchanged).
C9_InsertionAtStartShifts ==
    [][Inserted =>
        LET io == log'[Len(log')].args[1]
            il == log'[Len(log')].ret
        IN  \A i \in 1..Len(ex_table) :
              /\ ex_table[i].start = io =>
                    /\ ex_table'[i].start = io + il
                    /\ ex_table'[i].end - ex_table'[i].start
                          <= ex_table[i].end - ex_table[i].start
                    /\ ex_table[i].start < ex_table[i].end =>
                          /\ ex_table'[i].end = ex_table[i].end + il
                          /\ ex_table'[i].end - ex_table'[i].start
                                = ex_table[i].end - ex_table[i].start
              /\ ex_table[i].end = io =>
                    /\ ex_table'[i].end = io
                    /\ ex_table'[i].end - ex_table'[i].start
                          <= ex_table[i].end - ex_table[i].start
                    /\ ex_table[i].start < ex_table[i].end =>
                          /\ ex_table'[i].start = ex_table[i].start
                          /\ ex_table'[i].end - ex_table'[i].start
                                = ex_table[i].end - ex_table[i].start]_vars

\* after one insertion made at the start of a non-empty region that is also
\* the end of another
C9_Witness ==
    /\ pc.at = "idle" /\ Len(log) = 1 /\ LastCall.op = "insert_function_call"
    /\ \E i, j \in 1..Len(ex_table) :
          /\ orig_ex_table[i].start = LastCall.args[1]
          /\ orig_ex_table[i].start < orig_ex_table[i].end
          /\ ex_table[i].start = LastCall.args[1] + LastCall.ret
          /\ orig_ex_table[j].end = LastCall.args[1]
          /\ orig_ex_table[j].start < orig_ex_table[j].end
          /\ ex_table[j].end = LastCall.args[1]

\* C10 as claimed: every ExceptionTableEntry has start <= end in every state.
C10_StartNotAfterEnd ==
    \A i \in 1..Len(ex_table) : ex_table[i].start <= ex_table[i].end

\* the line entries tile the buffer: each has start <= end, each ends where
\* the next starts, and the last ends at the end of the buffer
Tiles(ls, code_len) ==
    /\ \A i \in 1..Len(ls) : ls[i].start <= ls[i].end
    /\ \A i \in 1..(Len(ls) - 1) : ls[i].end = ls[i + 1].start
    /\ ls # <<>> => ls[Len(ls)].end = code_len

\* C11 as claimed: the line entries tile the instruction stream in every
\* state, whatever offset from 0 to the buffer length was inserted at.
C11_LinesTile ==
    Tiles(orig_lines, Len(orig_code.co_code)) => Tiles(lines, Len(patch))

\* LineEntry.adjust's rule, applied for each call in turn
RECURSIVE LineRule(_, _)
LineRule(l, calls) ==
    IF calls = <<>> THEN l
    ELSE LET io == Head(calls)[1]
             il == Head(calls)[2]
         IN  LineRule([start |-> IF l.start > io THEN l.start + il ELSE l.start,
                       end |-> IF l.end > io THEN l.end + il ELSE l.end,
                       number |-> l.number],
                      Tail(calls))

\* C12: adjust(insert_offset, insert_length) moves a line entry's start and
\* its end each iff it is strictly greater than insert_offset; so an
\* insertion at the boundary of two adjacent entries leaves the preceding
\* entry as it was and puts all the inserted bytes in the entry that starts
\* at the insertion offset.
C12_LineAdjust ==
    [][/\ \A i \in 1..Len(lines) : lines'[i] = LineRule(lines[i], adj')
       /\ Inserted =>
            LET io == log'[Len(log')].args[1]
                il == log'[Len(log')].ret
            IN  \A i \in 1..Len(lines) :
                  /\ lines[i].end = io => lines'[i] = lines[i]
                  /\ lines[i].start = io =>
                        /\ lines'[i].start = io
                        /\ io + il <= lines'[i].end
                        /\ lines'[i].end = lines[i].end + il]_vars

\* after an insertion made where one line entry ends and the next starts
C12_Witness ==
    /\ pc.at = "idle" /\ Len(log) = 1 /\ LastCall.op = "insert_function_call"
    /\ ~LastCall.raised
    /\ \E i \in 1..(Len(lines) - 1) :
          /\ orig_lines[i].end = LastCall.args[1]
          /\ orig_lines[i + 1].start = LastCall.args[1]
          /\ lines[i] = orig_lines[i]
          /\ lines[i + 1].start = LastCall.args[1]
          /\ lines[i + 1].end = orig_lines[i + 1].end + LastCall.ret

\* this step is a replace_global_with_const that returned, for a name the
\* code has
Replaced ==
    /\ IsCall("replace_global_with_const")
    /\ ~log'[Len(log')].raised
    /\ \E i \in 1..Len(orig_code.co_names) :
          orig_code.co_names[i] = log'[Len(log')].args[1]

\* the decoded instruction t looks up the global with this index in co_names
IsLookup(v, t, name_index) ==
    /\ t[3] = op_LOAD_GLOBAL
    /\ IF v >= 311 THEN t[4] \div 2 = name_index ELSE t[4] = name_index

\* what a lookup t is to be rewritten to: a load of constant k, after a
\* PUSH_NULL if the lookup pushed one
ConstantLoad(v, t, k) ==
    (IF v >= 311 /\ t[4] % 2 = 1 THEN <<op_PUSH_NULL, 0>> ELSE <<>>)
    \o opcode_arg(v, op_LOAD_CONST, k, 0)

\* the running delta at offset off: the sum of the changes in length of the
\* lookups among ins that start before off
RECURSIVE DeltaBefore(_, _, _, _, _)
DeltaBefore(v, ins, name_index, k, off) ==
    IF ins = <<>> THEN 0
    ELSE DeltaBefore(v, Tail(ins), name_index, k, off)
         + (IF Head(ins)[1] < off
            THEN Len(ConstantLoad(v, Head(ins), k)) - Head(ins)[2] ELSE 0)

\* C13: after replace_global_with_const(name, k) for a name of the code, a
\* fresh decode of the patch buffer has no lookup of that name; each lookup
\* found in the buffer has been rewritten to a load of constant k at its
\* offset plus the running delta of the earlier rewrites, and every other
\* instruction is kept, byte for byte and in order.
C13_ReplaceRewritesEveryLookup ==
    [][Replaced =>
        LET v == PYTHON_VERSION
            name_index == name_index_of(orig_code.co_names, log'[Len(log')].args[1]) - 1
            k == log'[Len(log')].args[2]
            old == unpack_opargs(v, patch)
            new == unpack_opargs(v, patch')
            lookups == SelectSeq(old, LAMBDA t : IsLookup(v, t, name_index))
        IN  /\ \A j \in 1..Len(new) : ~IsLookup(v, new[j], name_index)
            /\ Len(patch') = Len(patch) + DeltaBefore(v, lookups, name_index, k, Len(patch))
            /\ \A j \in 1..Len(old) :
                  LET t == old[j]
                      at == t[1] + DeltaBefore(v, lookups, name_index, k, t[1])
                  IN  IF IsLookup(v, t, name_index)
                      THEN SubSeq(patch', at + 1, at + Len(ConstantLoad(v, t, k)))
                              = ConstantLoad(v, t, k)
                      ELSE SubSeq(patch', at + 1, at + t[2])
                              = SubSeq(patch, t[1] + 1, t[1] + t[2])]_vars

\* after an insertion, two lookups of one name were rewritten, the first to
\* a different length
C13_Witness ==
    /\ pc.at = "idle" /\ Len(log) = 2
    /\ log[1].op = "insert_function_call" /\ ~log[1].raised
    /\ LastCall.op = "replace_global_with_const" /\ ~LastCall.raised
    /\ Len(adj) >= 2
    /\ \A t \in {unpack_opargs(PYTHON_VERSION, patch)[j] :
                    j \in 1..Len(unpack_opargs(PYTHON_VERSION, patch))} :
          ~IsLookup(PYTHON_VERSION, t, 0)

\* the peak stack depth of the sequence insert_function_call builds, run in
\* a straight line: the function (under a NULL from 3.11 on) and the arguments
PeakDepth(v, args) == (IF v >= 311 THEN 2 ELSE 1) + Len(args)

\* the largest PeakDepth among the first k calls that were insertions, 0 if none
RECURSIVE MaxPeak(_)
MaxPeak(k) ==
    IF k = 0 THEN 0
    ELSE IF log[k].op = "insert_function_call" /\ ~log[k].raised
         THEN Max(MaxPeak(k - 1), PeakDepth(PYTHON_VERSION, log[k].args[3]))
         ELSE MaxPeak(k - 1)

\* C14: max_addtl_stack is the largest peak stack depth of the sequences
\* inserted so far (0 if none); it never decreases, add_const and
\* replace_global_with_const leave it alone, and the stack size finish emits
\* is the original stack size plus it.
C14_StackSize ==
    /\ [](max_addtl_stack = MaxPeak(Len(log)))
    /\ [][/\ max_addtl_stack' >= max_addtl_stack
          /\ (IsCall("add_const") \/ IsCall("replace_global_with_const"))
                => max_addtl_stack' = max_addtl_stack
          /\ Len(result') > Len(result)
                => result'[Len(result')].co_stacksize
                      = orig_code.co_stacksize + MaxPeak(Len(log))]_vars

\* finish has emitted the stack size after an insertion of a call with an
\* argument
C14_Witness ==
    /\ Len(result) = 1 /\ Len(log) = 2
    /\ log[1].op = "insert_function_call" /\ log[1].args[3] # <<>>
    /\ result[1].co_stacksize
          = orig_code.co_stacksize + PeakDepth(PYTHON_VERSION, log[1].args[3])

\* the values passed to the first k calls that were add_const, in call order
RECURSIVE AddedValues(_)
AddedValues(k) ==
    IF k = 0 THEN <<>>
    ELSE IF log[k].op = "add_const"
         THEN Append(AddedValues(k - 1), log[k].args[1])
         ELSE AddedValues(k - 1)

\* C15: add_const(value) returns the previous length of the pool, puts value
\* at that index whether or not an equal constant is in the pool, and keeps
\* every earlier index; no other operation changes the pool, and finish emits
\* the original constants followed by the added values in call order.
C15_ConstsAppendOnly ==
    /\ [](consts = orig_code.co_consts \o AddedValues(Len(log)))
    /\ [][/\ IsCall("add_const") =>
                /\ log'[Len(log')].ret = Len(consts)
                /\ Len(consts') = Len(consts) + 1
                /\ consts'[Len(consts) + 1] = log'[Len(log')].args[1]
                /\ \A i \in 1..Len(consts) : consts'[i] = consts[i]
          /\ ~IsCall("add_const") => consts' = consts
          /\ Len(result') > Len(result)
                => result'[Len(result')].co_consts
                      = orig_code.co_consts \o AddedValues(Len(log))]_vars

\* finish has emitted a pool to which a constant equal to an original one
\* was added
C15_Witness ==
    /\ Len(result) = 1 /\ Len(log) = 2 /\ log[1].op = "add_const"
    /\ \E i \in 1..Len(orig_code.co_consts) : orig_code.co_consts[i] = log[1].args[1]
    /\ log[1].ret = Len(orig_code.co_consts)
    /\ result[1].co_consts = Append(orig_code.co_consts, log[1].args[1])

\* the byte is the last chunk of a varint: its continuation bit is clear
LastChunk(b) == (b \div 64) % 2 = 0

\* the byte stream stops in the middle of a record: in the middle of a
\* varint, or after a number of varints that is not a multiple of four
Truncated(bytes) ==
    /\ bytes # <<>>
    /\ \/ ~LastChunk(bytes[Len(bytes)])
       \/ Cardinality({i \in 1..Len(bytes) : LastChunk(bytes[i])}) % 4 # 0

\* C16 as claimed: decoding an exception table that stops in the middle of
\* a record fails; the decoder never returns the records that preceded.
C16_TruncatedTableFails ==
    (codec.op = "from_code" /\ Truncated(codec.args[1])) => codec.raised

\* the number of varints that end among the first k bytes
VarintsBefore(bytes, k) == Cardinality({i \in 1..k : LastChunk(bytes[i])})

\* the byte at index i is the first byte of a varint, of a record
StartsVarint(bytes, i) == i = 1 \/ LastChunk(bytes[i - 1])
StartsRecord(bytes, i) == StartsVarint(bytes, i) /\ VarintsBefore(bytes, i - 1) % 4 = 0

\* the table is as make_exceptiontable writes one: whole records, the mark on
\* the first byte of each record and on no other, no varint with a leading
\* chunk of zero
Canonical(bytes) ==
    /\ ~Truncated(bytes)
    /\ \A i \in 1..Len(bytes) :
          /\ ((bytes[i] \div 128) % 2 = 1) <=> StartsRecord(bytes, i)
          /\ (StartsVarint(bytes, i) /\ ~LastChunk(bytes[i])) => bytes[i] % 64 # 0

\* the number of six-bit chunks write_varint_be needs for n
Chunks(n) == IF n < 64 THEN 1 ELSE IF n < 4096 THEN 2 ELSE 3

\* C17: decoding make_exceptiontable(entries) gives the entries back, for
\* entries with start <= end and even, non-negative offsets; re-encoding a
\* decoded canonical table gives its bytes back; a varint of any number of
\* chunks is read back as written, whether or not its first byte is marked.
C17_TableRoundTrip ==
    /\ codec.op = "make_exceptiontable" =>
          ExceptionTableEntry_from_code(PYTHON_VERSION, codec.ret) = codec.args[1]
    /\ (codec.op = "from_code" /\ Canonical(codec.args[1])) =>
          make_exceptiontable(PYTHON_VERSION, codec.ret) = codec.args[1]
    /\ codec.op = "write_varint_be" =>
          /\ Len(codec.ret) = Chunks(codec.args[1])
          /\ read_varint_be(codec.ret, 1)
                = [stop |-> FALSE, pos |-> Len(codec.ret) + 1, value |-> codec.args[1]]

\* a table of two entries was written, one an empty region, with fields of
\* one, two and three chunks, and reads back as the two entries
C17_Witness ==
    /\ codec.op = "make_exceptiontable" /\ PYTHON_VERSION = 311
    /\ Len(codec.args[1]) = 2
    /\ codec.args[1][1].start = 8192 /\ codec.args[1][1].end = 8192
    /\ codec.args[1][1].other = 65
    /\ codec.args[1][2].start = 0 /\ codec.args[1][2].end = 130
    /\ Len(codec.ret) > 8
    /\ ExceptionTableEntry_from_code(PYTHON_VERSION, codec.ret) = codec.args[1]

\* the length of the sequence inserted for a call of a constant with these
\* arguments, each loaded by one instruction without prefixes: NOP, (PUSH_NULL,)
\* the loads, (PRECALL with one cache entry, CALL with four | CALL_FUNCTION),
\* POP_TOP
SequenceLength(v, args) == (IF v >= 311 THEN 22 ELSE 8) + 2 * Len(args)

\* C18: insert_function_call(offset, f, args) returns the length L of the
\* sequence it inserts; afterwards the patch buffer is
\* old[0:offset] + sequence + old[offset:], L bytes longer; the constant pool
\* and the finished flag are unchanged.
C18_InsertSplices ==
    [][Inserted =>
        LET io == log'[Len(log')].args[1]
            il == log'[Len(log')].ret
        IN  /\ il = SequenceLength(PYTHON_VERSION, log'[Len(log')].args[3])
            /\ Len(patch') = Len(patch) + il
            /\ SubSeq(patch', 1, io) = SubSeq(patch, 1, io)
            /\ patch'[io + 1] = op_NOP
            /\ patch'[io + il - 1] = op_POP_TOP
            /\ \A i \in (io + 1)..Len(patch) : patch'[i + il] = patch[i]
            /\ consts' = consts
            /\ finished' = finished]_vars

\* after an insertion in the middle of the buffer
C18_Witness ==
    /\ pc.at = "idle" /\ Len(log) = 1
    /\ LastCall.op = "insert_function_call" /\ ~LastCall.raised
    /\ 0 < LastCall.args[1]
    /\ LastCall.args[1] + LastCall.ret < Len(patch)
    /\ Len(patch) = Len(orig_code.co_code) + LastCall.ret
    /\ SubSeq(patch, 1, LastCall.args[1]) = SubSeq(orig_code.co_code, 1, LastCall.args[1])

\* the decoded instructions follow each other from offset 0 to offset n
Contiguous(ins, n) ==
    /\ ins = <<>> => n = 0
    /\ ins # <<>> => ins[1][1] = 0
    /\ \A j \in 1..Len(ins) :
          ins[j][1] + ins[j][2] = (IF j < Len(ins) THEN ins[j + 1][1] ELSE n)

\* the prefixes an operand needs: one for each byte above the lowest
PrefixesNeeded(arg) ==
    IF arg < 256 THEN 0 ELSE IF arg < 65536 THEN 1 ELSE IF arg < 16777216 THEN 2 ELSE 3

\* the encoded instruction decodes to itself, alone in the buffer
DecodesToItself ==
    /\ ~codec.raised
    /\ Len(codec.ret) = 2 * (1 + Max(PrefixesNeeded(codec.args[2]), codec.args[3])
                               + (IF PYTHON_VERSION >= 311
                                  THEN inline_cache_entries(codec.args[1]) ELSE 0))
    /\ unpack_opargs(PYTHON_VERSION, codec.ret)
          = << <<0, Len(codec.ret), codec.args[1], codec.args[2]>> >>

AtBoundary(x) == x \in boundaries(PYTHON_VERSION, patch)

\* C20 as claimed: after insertions at instruction boundaries, replacements
\* and growth steps, each ExceptionTableEntry's start, end and target is
\* non-negative and is the offset of an instruction boundary of the patch
\* buffer.
C20_EntriesAtBoundaries ==
    (InsertionsAtBoundaries /\ pc.at = "idle") =>
        \A i \in 1..Len(ex_table) :
            /\ ex_table[i].start >= 0 /\ AtBoundary(ex_table[i].start)
            /\ ex_table[i].end >= 0 /\ AtBoundary(ex_table[i].end)
            /\ ex_table[i].target >= 0 /\ AtBoundary(ex_table[i].target)

\* the decoded instructions of each code object an Editor is constructed from
orig_instructions ==
    [v \in {309, 310, 311} |->
        [code \in Codes(v) |-> unpack_opargs(v, code.co_code)]]

\* the branches of each code object an Editor is constructed from
orig_targets ==
    [v \in {309, 310, 311} |->
        [code \in Codes(v) |->
            LET bs == Branch_from_code(v, code.co_code)
            IN  [i \in 1..Len(bs) |-> bs[i].target]]]

\* t is the first instruction of an inserted call sequence: the NOP whose
\* operand is the branch over the rest of the sequence
IsHead(t) == t[3] = op_NOP /\ t[4] > 0

\* the index of the first instruction after rem more bytes of a call
\* sequence, from instruction k on; a call sequence inserted inside it is
\* stepped over
RECURSIVE Walk(_, _, _, _)
Walk(v, ins, k, rem) ==
    IF rem <= 0 \/ k > Len(ins) THEN k
    ELSE IF IsHead(ins[k])
         THEN Walk(v, ins, Walk(v, ins, k + 1, branch2offset(v, ins[k][4])), rem)
         ELSE Walk(v, ins, k + 1, rem - ins[k][2])

\* the inserted call sequences of ins, each as <<index of its first
\* instruction, index of the first instruction after it>>
Spans(v, ins) ==
    {<<h, Walk(v, ins, h + 1, branch2offset(v, ins[h][4]))>> :
        h \in {h \in 1..Len(ins) : IsHead(ins[h])}}

InSequence(spans, k) == \E s \in spans : s[1] <= k /\ k < s[2]

\* the instructions of ins that stand for an instruction of the original
\* code: those outside the inserted call sequences, the PUSH_NULL and
\* LOAD_CONST that replace one LOAD_GLOBAL counting once
Logical(ins, spans) ==
    {k \in 1..Len(ins) :
        /\ ~InSequence(spans, k)
        /\ ~(/\ ins[k][3] = op_LOAD_CONST
             /\ \E j \in 1..(k - 1) :
                  /\ ins[j][3] = op_PUSH_NULL
                  /\ ~InSequence(spans, j)
                  /\ \A m \in (j + 1)..(k - 1) : InSequence(spans, m))}

\* offset t of the decoded buffer ins designates what offset t0 designates in
\* the original instructions ins0: t starts an instruction, no inserted call
\* sequence ends at t (a target at an instrumented instruction is the first
\* byte of its instrumentation), and as many original instructions start at
\* or after t as start at or after t0 in the original code
SameDestination(ins, spans, logical, t, ins0, t0) ==
    /\ \E k \in 1..Len(ins) : ins[k][1] = t
    /\ ~\E k \in 1..Len(ins) :
          /\ ins[k][1] + ins[k][2] = t
          /\ \E s \in spans : s[2] = k + 1
    /\ Cardinality({k \in logical : ins[k][1] >= t})
          = Cardinality({k \in 1..Len(ins0) : ins0[k][1] >= t0})

\* every Branch's target is an instruction boundary of the patch buffer and
\* designates its original destination
TargetsKeepDestination ==
    \E ins \in {unpack_opargs(PYTHON_VERSION, patch)} :
    \E spans \in {Spans(PYTHON_VERSION, ins)} :
    \E logical \in {Logical(ins, spans)} :
    \E ins0 \in {orig_instructions[PYTHON_VERSION][orig_code]} :
    \E targets0 \in {orig_targets[PYTHON_VERSION][orig_code]} :
        \A i \in 1..Len(branches) :
            SameDestination(ins, spans, logical, branches[i].target, ins0, targets0[i])

\* a growth step of finish: the branch that grew keeps its offset, takes
\* the length it needs and moves its own target iff target > offset; the
\* bytes are inserted at its offset, and every other branch is adjusted for
\* that insertion
GrowthStep ==
    (pc.at = "scan" /\ adj' # <<>>) =>
        LET b == branches[pc.i]
            change == adj'[1][2]
        IN  /\ adj' = << <<b.offset, change>> >>
            /\ change = Branch_change(PYTHON_VERSION, b) /\ change > 0
            /\ branches'[pc.i].offset = b.offset
            /\ branches'[pc.i].length = b.length + change
            /\ branches'[pc.i].opcode = b.opcode
            /\ branches'[pc.i].target
                  = IF b.target > b.offset THEN b.target + change ELSE b.target
            /\ \A j \in 1..Len(branches) :
                  j # pc.i => branches'[j] = BranchRule(branches[j], adj')

\* C21 as claimed: in every state, those inside finish included, each
\* Branch's target is the offset of an instruction boundary of the patch
\* buffer and designates the same destination as in the original code, after
\* insertions at instruction boundaries, replacements and growth steps.
C21_TargetsInEveryState == InsertionsAtBoundaries => TargetsKeepDestination

\* C21: whenever no call is running, each Branch's target is the offset of an
\* instruction boundary of the patch buffer and designates the same
\* destination as in the original code (the original target instruction, or
\* the first byte of the call sequences or extension prefixes inserted exactly
\* at it), after any insertions at instruction boundaries, replacements and
\* calls of finish; and in each growth step of finish the branch that grows
\* moves its own target iff target > offset and is left out of the adjust
\* applied to the other branches. (Inside finish the bytes inserted for a
\* growing branch are zeros until the branches are written back.)
C21_TargetsBetweenCalls ==
    /\ []((pc.at = "idle" /\ InsertionsAtBoundaries) => TargetsKeepDestination)
    /\ [][GrowthStep]_vars

\* finish has returned after a forward branch grew that is the target of
\* another branch: that target is the first byte of the extension prefix
C21_Witness ==
    /\ pc.at = "idle" /\ Len(log) >= 2 /\ InsertionsAtBoundaries
    /\ LastCall.op = "finish" /\ ~LastCall.raised
    /\ \E i, j \in 1..Len(branches) :
          /\ i # j
          /\ branches[j].length = 4
          /\ branches[j].target > branches[j].offset
          /\ branches[i].target = branches[j].offset
          /\ patch[branches[i].target + 1] \in is_EXTENDED_ARG(PYTHON_VERSION)
          /\ patch[branches[i].target + 3] = branches[j].opcode

====
